---- MODULE Spec2Model ----
(***************************************************************************)
(* testmynet-cli: a command-line bandwidth tester.  One invocation parses  *)
(* its flags, issues one HTTP GET, passes the overload protection (a       *)
(* timestamp file under the home directory) unless forced, and prints one  *)
(* result line.  The model follows main() step by step for a fixed set of  *)
(* invocations that share one clock, one environment and one state file.   *)
(*                                                                         *)
(* Time is counted in milliseconds.  Text is modelled by TLA+ strings, so  *)
(* formatted output is the text the program prints.  A timestamp in the    *)
(* layout time.UnixDate is modelled by the second it names: formatting     *)
(* drops the fraction of the second, parsing gives the whole second back.  *)
(***************************************************************************)
EXTENDS Integers, Sequences, FiniteSets, TLC

(***************************************************************************)
(* Program constants.                                                      *)
(***************************************************************************)
minDurationMinutes == 15
defaultLocation == "ca"
defaultDataSize == 10240
tmnDomain == "testmy.net"

\* time.Second and time.Minute, in the model's unit (1 = one millisecond).
Second == 1000
Minute == 60 * Second

\* The keys of the serverLocation map.
serverLocation ==
    {"au2", "ca", "co", "de", "fl", "in", "jp", "lax", "ny", "sf", "sg", "tx", "uk"}

\* The values download() fabricates in a dry run.
dryRunWritten == 1000000
dryRunDuration == 8 * Second

(***************************************************************************)
(* The extent of the model.                                                *)
(***************************************************************************)
\* How many times the clock advances in one behaviour.
MaxTicks == 3

\* The invocations of the program, and the two of them that may overlap.
Procs == {1, 2, 3}
Overlapping == {1, 2}

\* The clock when the first invocation starts (a whole second).
StartClock == 20 * Minute

\* The amounts by which the clock advances: half a second, and half a second
\* less than the minimum interval (together: exactly the minimum interval).
ClockSteps == {Second \div 2, minDurationMinutes * Minute - Second \div 2}

\* A flag that is not on the command line.
Unset == "<unset>"

(***************************************************************************)
(* Text formatting (fmt verbs used by the program).                        *)
(***************************************************************************)
RECURSIVE Pow10(_)
Pow10(n) == IF n = 0 THEN 1 ELSE 10 * Pow10(n - 1)

\* The decimal digits of n, left-padded with zeros to the given width.
RECURSIVE ZeroPad(_, _)
ZeroPad(n, width) ==
    IF width = 0 THEN ""
    ELSE ZeroPad(n \div 10, width - 1) \o ToString(n % 10)

\* fmt's %.<places>f of the non-negative rational num/den: rounded to the
\* nearest multiple of 10^-places, always with that many decimals.
FmtFixed(num, den, places) ==
    LET ip     == num \div den
        rem    == num % den
        f      == (rem * Pow10(places)) \div den
        r2     == (rem * Pow10(places)) % den
        scaled == ip * Pow10(places) + f + (IF 2 * r2 >= den THEN 1 ELSE 0)
    IN  ToString(scaled \div Pow10(places)) \o "." \o
        ZeroPad(scaled % Pow10(places), places)

\* n without its trailing decimal zeros, as the digits after a decimal point
\* (width digits before trimming); "" when n = 0.
RECURSIVE TrimFrac(_, _)
TrimFrac(n, width) ==
    IF n = 0 \/ width = 0 THEN ""
    ELSE IF n % 10 = 0 THEN TrimFrac(n \div 10, width - 1)
    ELSE ZeroPad(n, width)

\* time.Duration.String() for a duration d >= 0 given in milliseconds.
DurationString(d) ==
    LET secs == d \div Second
        ms   == d % Second
        frac == IF ms = 0 THEN "" ELSE "." \o TrimFrac(ms, 3)
        h    == secs \div 3600
        m    == (secs % 3600) \div 60
        s    == secs % 60
    IN  IF d = 0 THEN "0s"
        ELSE IF d < Second THEN ToString(d) \o "ms"
        ELSE (IF h > 0 THEN ToString(h) \o "h" ELSE "") \o
             (IF h > 0 \/ m > 0 THEN ToString(m) \o "m" ELSE "") \o
             ToString(s) \o frac \o "s"

(***************************************************************************)
(* flags.go                                                                *)
(***************************************************************************)
\* flag.Parse on the registered flags: a flag that is not on the command line
\* keeps its default.
flagParse(cmd) ==
    [csv      |-> cmd.csv,
     server   |-> IF cmd.server = Unset THEN "" ELSE cmd.server,
     location |-> IF cmd.location = Unset THEN defaultLocation ELSE cmd.location,
     datasize |-> IF cmd.size = <<>> THEN defaultDataSize ELSE cmd.size[1],
     dryrun   |-> cmd.dryrun,
     force    |-> cmd.force,
     verbose  |-> cmd.verbose]

\* The server name made from a location.
locationServer(location) == "http://" \o location \o "." \o tmnDomain

\* The check of the location against the table.
knownLocation(location) == location \in serverLocation

\* The server parseFlags leaves in the options.
resolveServer(server, location) ==
    IF server = "" THEN locationServer(location) ELSE server

\* parseFlags with the location checked only when no server is given.
parseFlags_serverSkipsCheck(cmd) ==
    LET x == flagParse(cmd) IN
    IF x.location = "help" THEN [status |-> "exit2", opt |-> x]
    ELSE IF x.server = "" /\ ~knownLocation(x.location) THEN [status |-> "err", opt |-> x]
    ELSE [status |-> "ok",
          opt |-> [x EXCEPT !.server = resolveServer(x.server, x.location)]]

\* parseFlags: the outcome ("exit2" for the help listing, "err", "ok") and the
\* options it leaves behind.
parseFlags(cmd) ==
    LET x == flagParse(cmd) IN
    IF x.location = "help" THEN [status |-> "exit2", opt |-> x]
    ELSE IF ~knownLocation(x.location) THEN [status |-> "err", opt |-> x]
    ELSE [status |-> "ok",
          opt |-> [x EXCEPT !.server = resolveServer(x.server, x.location)]]

(***************************************************************************)
(* download                                                                *)
(***************************************************************************)
\* What the network does to one request: the GET fails, or it answers and the
\* body then fails to read or is read in full (written bytes, elapsed time).
NetOutcomes ==
    {[get |-> "err", copy |-> "err", written |-> 0, elapsed |-> 0],
     [get |-> "ok",  copy |-> "err", written |-> 0, elapsed |-> 0],
     [get |-> "ok",  copy |-> "ok",  written |-> 1048576, elapsed |-> 2345]}

\* download that measures the transfer in a dry run too.
download_ignoresDryRun(server, datasize, dryrun, net) ==
    IF net.get = "err"
    THEN [err |-> "get", written |-> 0, duration |-> 0]
    ELSE IF net.copy = "err"
         THEN [err |-> "copy", written |-> 0, duration |-> 0]
         ELSE [err |-> "", written |-> net.written, duration |-> net.elapsed]

\* download(server, datasize, dryrun) when the network does net.
download(server, datasize, dryrun, net) ==
    IF net.get = "err"
    THEN [err |-> "get", written |-> 0, duration |-> 0]
    ELSE IF ~dryrun
         THEN IF net.copy = "err"
              THEN [err |-> "copy", written |-> 0, duration |-> 0]
              ELSE [err |-> "", written |-> net.written, duration |-> net.elapsed]
         ELSE [err |-> "", written |-> dryRunWritten, duration |-> dryRunDuration]

(***************************************************************************)
(* homeDir and the state file                                              *)
(***************************************************************************)
\* What os.Stat finds at the home path: a directory, a directory in which no
\* file can be created, a regular file, nothing, or an error other than
\* "does not exist".
HomeKinds == {"dir", "rodir", "file", "missing", "eacces"}

\* Whether os.ModeType.IsDir() holds: ModeType is the constant mask of all
\* type bits, ModeDir among them, whatever os.Stat returned.
modeTypeIsDir(kind) == TRUE

\* homeDir() in environment e: the path and the error ("" for none).
homeDir(e) ==
    IF e.HOME = "" /\ ~e.usrOk
    THEN [home |-> "", err |-> "user"]
    ELSE LET home == IF e.HOME = "" THEN e.usrHome ELSE e.HOME IN
         IF e.kind = "missing" \/ ~modeTypeIsDir(e.kind)
         THEN [home |-> "", err |-> "home"]
         ELSE IF e.kind = "eacces"
         THEN [home |-> "", err |-> "stat"]
         ELSE [home |-> home, err |-> ""]

\* The text of a time in the layout time.UnixDate: whole seconds, no
\* fraction.  The text is represented by the number of its second.
FormatUnixDate(t) == [txt |-> "date", sec |-> t \div Second]

\* Text that is no timestamp.
Garbage == [txt |-> "garbage", sec |-> 0]

\* A parse that takes text that is no timestamp for the zero time.
ParseUnixDate_lenient(text) ==
    IF text.txt = "date"
    THEN [ok |-> TRUE, t |-> text.sec * Second]
    ELSE [ok |-> TRUE, t |-> 0]

\* time.Parse(time.UnixDate, text): whether it parses, and the time.
ParseUnixDate(text) ==
    IF text.txt = "date"
    THEN [ok |-> TRUE, t |-> text.sec * Second]
    ELSE [ok |-> FALSE, t |-> 0]

\* The state file: absent, present but not accessible, or holding text.
Absent == [st |-> "absent", data |-> Garbage]
NoPerm == [st |-> "noperm", data |-> Garbage]
Holding(text) == [st |-> "data", data |-> text]

\* ioutil.ReadFile of the state file under a home that os.Stat found to be of
\* the given kind: the error ("" for none, "notexist", or another) and the text.
ReadFile(kind, f) ==
    IF kind \notin {"dir", "rodir"} THEN [err |-> "notdir", data |-> Garbage]
    ELSE IF f.st = "absent" THEN [err |-> "notexist", data |-> Garbage]
    ELSE IF f.st = "noperm" THEN [err |-> "perm", data |-> Garbage]
    ELSE [err |-> "", data |-> f.data]

\* Whether ioutil.WriteFile of the state file succeeds.
WriteFileOk(kind, f) ==
    /\ kind \in {"dir", "rodir"}
    /\ f.st # "noperm"
    /\ ~(kind = "rodir" /\ f.st = "absent")

\* The comparison with <= for <.
tooSoon_orEqual(since, minDuration) == since <= minDuration

\* The comparison left out.
tooSoon_never(since, minDuration) == FALSE

\* The comparison of overloadProtection: the run is too early.
tooSoon(since, minDuration) == since < minDuration

\* The minimum interval main passes to overloadProtection.
MinDuration == minDurationMinutes * Minute

(***************************************************************************)
(* The report                                                              *)
(***************************************************************************)
\* bw = (float64(bytes) * 8 / duration.Seconds()) / 1e6 as the fraction
\* num/den, for a duration in milliseconds: bytes / (duration * 125).
bwNum(bytes, duration) == bytes
bwDen(bytes, duration) == duration * 125

\* The precision of the seconds column of the csv line.
csvSecondsPlaces == 2

\* The precision of the bandwidth in both output forms.
bwPlaces == 3

\* The line main prints.
reportLine(o, bytes, duration) ==
    LET bw == FmtFixed(bwNum(bytes, duration), bwDen(bytes, duration), bwPlaces) IN
    IF o.csv
    THEN o.server \o "," \o ToString(bytes) \o "," \o
         FmtFixed(duration, Second, csvSecondsPlaces) \o "," \o bw
    ELSE "Downloaded " \o ToString(bytes) \o " bytes from " \o o.server \o
         " in " \o DurationString(duration) \o ". Bandwidth = " \o bw \o "Mbps"

\* The test on the force flag left out: the protection always runs.
skipProtection_never(o) == FALSE

\* The protection left out in a dry run as well.
skipProtection_orDryRun(o) == o.force \/ o.dryrun

\* The test of main on the force flag: the overload protection is left out.
skipProtection(o) == o.force

\* An error that is logged without ending the process: main goes on to print.
afterFatalf_goesOn == "report"

\* Where log.Fatalf leaves the process: it has exited with a non-zero status.
afterFatalf == "fatal"

\* The error of a run that comes too early.
tooSoonError(minDuration, since) ==
    "program ran less than " \o DurationString(minDuration) \o " ago (" \o
    DurationString(since) \o ")"

(***************************************************************************)
(* State                                                                   *)
(***************************************************************************)
VARIABLES
    clock,    \* the wall clock
    nticks,   \* how many times the clock has advanced
    env,      \* HOME, the user record and what is at the home path
    file,     \* the state file
    pc,       \* where each invocation is in main
    opt,      \* its options (cmdLineOpts)
    dl,       \* what download returned to it
    cmd,      \* its command line, <<>> before it starts
    buf,      \* what ioutil.ReadFile returned to it, <<>> before that
    since,    \* the elapsed time it computed, <<>> before that
    tformat,  \* its time.Now() and the text of it, <<>> before that
    prior,    \* how many runs had passed the protection when it read the file
    file0,    \* the state file when the first invocation started
    err,      \* the error it died of, "" for none
    out,      \* what it printed to standard output
    events,   \* what it has done to the outside so far, in order
    passes    \* the runs that passed the protection, in order: who, and its time.Now()

vars ==
    <<clock, nticks, env, file, pc, cmd, opt, dl, buf, since, tformat, prior, file0,
      err, out, events, passes>>

\* Command lines: every combination of the flags, with and without a server,
\* with the default, a known, an unknown, an empty and the help location.
\* and the default command line with --verbose given twice.
CmdLines ==
    [csv : BOOLEAN, server : {Unset, "", "http://example.org"},
     location : {Unset, "uk", "zz", "", "help"}, size : {<<>>, <<512>>},
     dryrun : BOOLEAN, force : BOOLEAN, verbose : {0}]
    \cup
    [csv : {FALSE}, server : {Unset}, location : {Unset}, size : {<<>>},
     dryrun : {FALSE}, force : {FALSE}, verbose : {2}]

\* Command lines that differ only in what the overload protection reads: the
\* dry-run and the force flag.
PlainCmdLines ==
    [csv : {TRUE}, server : {Unset}, location : {Unset}, size : {<<>>},
     dryrun : BOOLEAN, force : BOOLEAN, verbose : {0}]

\* The options before parseFlags.
NoOpt ==
    [csv |-> FALSE, server |-> "", location |-> "", datasize |-> 0,
     dryrun |-> FALSE, force |-> FALSE, verbose |-> 0]

NoDownload == [err |-> "", written |-> 0, duration |-> 0]

\* A usable home directory, named by HOME.
UsableEnv == [HOME |-> "/home/u", usrOk |-> TRUE, usrHome |-> "/home/u", kind |-> "dir"]

\* The environments: HOME set or empty, the user record found or not, and
\* what lies at the home path.
Envs ==
    {e \in [HOME : {"", "/home/u"}, usrOk : BOOLEAN, usrHome : {"/home/u"},
            kind : HomeKinds] :
        /\ e.HOME # "" => e.usrOk
        /\ ~e.usrOk => e.kind = "dir"}

\* The state file when the first invocation starts: absent, not accessible,
\* corrupted, written just now, written the minimum interval ago.
InitFiles ==
    {Absent, NoPerm, Holding(Garbage),
     Holding(FormatUnixDate(StartClock)),
     Holding(FormatUnixDate(StartClock - MinDuration))}

\* The start, in one of the given environments.
InitIn(envs) ==
    /\ clock = StartClock
    /\ nticks = 0
    /\ env \in envs
    /\ file \in (IF env.kind \in {"dir", "rodir"} THEN InitFiles ELSE {Absent})
    /\ file0 = file
    /\ pc = [p \in Procs |-> "start"]
    /\ cmd = [p \in Procs |-> <<>>]
    /\ opt = [p \in Procs |-> NoOpt]
    /\ dl = [p \in Procs |-> NoDownload]
    /\ buf = [p \in Procs |-> <<>>]
    /\ since = [p \in Procs |-> <<>>]
    /\ tformat = [p \in Procs |-> <<>>]
    /\ prior = [p \in Procs |-> 0]
    /\ err = [p \in Procs |-> ""]
    /\ out = [p \in Procs |-> <<>>]
    /\ events = [p \in Procs |-> <<>>]
    /\ passes = <<>>

(***************************************************************************)
(* Steps                                                                   *)
(***************************************************************************)
\* Invocation p has exited.
Finished(p) == pc[p] \in {"done", "fatal", "exit2"}

\* Time passes while one of the given invocations has not exited.
Tick(ps) ==
    /\ \E p \in ps : ~Finished(p)
    /\ nticks < MaxTicks
    /\ \E d \in ClockSteps : clock' = clock + d
    /\ nticks' = nticks + 1
    /\ UNCHANGED <<env, file, pc, cmd, opt, dl, buf, since, tformat, prior, file0,
                   err, out, events, passes>>

\* log.Fatalf: the error goes to standard error and the process exits.
Fatal(p, e, did) ==
    /\ pc' = [pc EXCEPT ![p] = afterFatalf]
    /\ err' = [err EXCEPT ![p] = e]
    /\ events' = [events EXCEPT ![p] = @ \o did]

\* main, lines 129-141: parseFlags.  Of the help listing the first line is kept.
ParseFlags(p, cmds) ==
    /\ pc[p] = "start"
    /\ \E c \in cmds :
        LET r == parseFlags(c) IN
        /\ cmd' = [cmd EXCEPT ![p] = <<c>>]
        /\ opt' = [opt EXCEPT ![p] = r.opt]
        /\ IF r.status = "exit2"
           THEN /\ pc' = [pc EXCEPT ![p] = "exit2"]
                /\ out' = [out EXCEPT ![p] = <<"Available Locations:">>]
                /\ events' = [events EXCEPT ![p] = @ \o <<"parse", "help">>]
                /\ UNCHANGED err
           ELSE IF r.status = "err"
           THEN /\ Fatal(p, "unable to find location", <<"parse">>)
                /\ UNCHANGED out
           ELSE /\ pc' = [pc EXCEPT ![p] = "download"]
                /\ events' = [events EXCEPT ![p] = @ \o <<"parse">>]
                /\ UNCHANGED <<err, out>>
    /\ UNCHANGED <<clock, nticks, env, file, dl, buf, since, tformat, prior, file0, passes>>

\* main, lines 143-149: download, then the choice on the force flag.
Download(p) ==
    /\ pc[p] = "download"
    /\ \E net \in NetOutcomes :
        LET r == download(opt[p].server, opt[p].datasize, opt[p].dryrun, net) IN
        /\ dl' = [dl EXCEPT ![p] = r]
        /\ IF r.err # ""
           THEN Fatal(p, r.err, <<"get">>)
           ELSE /\ pc' = [pc EXCEPT ![p] = IF skipProtection(opt[p]) THEN "report" ELSE "read"]
                /\ events' = [events EXCEPT ![p] = @ \o <<"get">>]
                /\ UNCHANGED err
    /\ UNCHANGED <<clock, nticks, env, file, cmd, opt, buf, since, tformat, prior, file0,
                   out, passes>>

\* overloadProtection, lines 90-106 and 113-115: the home directory, the read
\* of the state file and the parse of its text.
ReadState(p) ==
    /\ pc[p] = "read"
    /\ LET h == homeDir(env)
           r == ReadFile(env.kind, file)
       IN  IF h.err # ""
           THEN /\ Fatal(p, h.err, IF h.err = "user" THEN <<>> ELSE <<"stat">>)
                /\ UNCHANGED <<buf, prior>>
           ELSE /\ buf' = [buf EXCEPT ![p] = <<r>>]
                /\ prior' = [prior EXCEPT ![p] = Len(passes)]
                /\ IF r.err = "notexist"
                   THEN /\ pc' = [pc EXCEPT ![p] = "now"]
                        /\ events' = [events EXCEPT ![p] = @ \o <<"stat", "read">>]
                        /\ UNCHANGED err
                   ELSE IF r.err # ""
                   THEN Fatal(p, r.err, <<"stat", "read">>)
                   ELSE IF ~ParseUnixDate(r.data).ok
                   THEN Fatal(p, "parse", <<"stat", "read">>)
                   ELSE /\ pc' = [pc EXCEPT ![p] = "since"]
                        /\ events' = [events EXCEPT ![p] = @ \o <<"stat", "read">>]
                        /\ UNCHANGED err
    /\ UNCHANGED <<clock, nticks, env, file, cmd, opt, dl, since, tformat, file0, out, passes>>

\* overloadProtection, lines 107-111: the elapsed time against the minimum.
CheckSince(p) ==
    /\ pc[p] = "since"
    /\ LET tim == ParseUnixDate(buf[p][1].data).t
           s   == clock - tim
       IN  /\ since' = [since EXCEPT ![p] = <<s>>]
           /\ IF tooSoon(s, MinDuration)
              THEN Fatal(p, tooSoonError(MinDuration, s), <<>>)
              ELSE /\ pc' = [pc EXCEPT ![p] = "now"]
                   /\ UNCHANGED <<err, events>>
    /\ UNCHANGED <<clock, nticks, env, file, cmd, opt, dl, buf, tformat, prior, file0,
                   out, passes>>

\* overloadProtection, lines 118-120: the current time, formatted.
FormatNow(p) ==
    /\ pc[p] = "now"
    /\ tformat' = [tformat EXCEPT ![p] = <<clock, FormatUnixDate(clock)>>]
    /\ pc' = [pc EXCEPT ![p] = "write"]
    /\ UNCHANGED <<clock, nticks, env, file, cmd, opt, dl, buf, since, prior, file0,
                   err, out, events, passes>>

\* overloadProtection, lines 122-125: the write of the state file.
WriteState(p) ==
    /\ pc[p] = "write"
    /\ IF WriteFileOk(env.kind, file)
       THEN /\ file' = Holding(tformat[p][2])
            /\ passes' = Append(passes, [by |-> p, at |-> tformat[p][1]])
            /\ pc' = [pc EXCEPT ![p] = "report"]
            /\ events' = [events EXCEPT ![p] = @ \o <<"write">>]
            /\ UNCHANGED err
       ELSE /\ Fatal(p, "write", <<"write">>)
            /\ UNCHANGED <<file, passes>>
    /\ UNCHANGED <<clock, nticks, env, cmd, opt, dl, buf, since, tformat, prior, file0, out>>

\* main, lines 155-162: the bandwidth and the result line.
Report(p) ==
    /\ pc[p] = "report"
    /\ out' = [out EXCEPT ![p] = <<reportLine(opt[p], dl[p].written, dl[p].duration)>>]
    /\ pc' = [pc EXCEPT ![p] = "done"]
    /\ events' = [events EXCEPT ![p] = @ \o <<"print">>]
    /\ UNCHANGED <<clock, nticks, env, file, cmd, opt, dl, buf, since, tformat, prior,
                   file0, err, passes>>

\* One step of invocation p, started with one of the given command lines.
Step(p, cmds) ==
    \/ ParseFlags(p, cmds)
    \/ Download(p)
    \/ ReadState(p)
    \/ CheckSince(p)
    \/ FormatNow(p)
    \/ WriteState(p)
    \/ Report(p)

\* Invocation p is between its start and its exit.
Running(p) == pc[p] # "start" /\ ~Finished(p)

\* Invocations of the same user with a usable home directory, run in any
\* interleaving.
Init == InitIn({UsableEnv})

Next == Tick(Overlapping) \/ \E p \in Overlapping : Step(p, PlainCmdLines)

Spec == Init /\ [][Next]_vars

\* Invocations run one after the other, in the order of their numbers: none
\* starts or runs while another is running.
InTurn(p) == \A q \in Procs \ {p} : ~Running(q) /\ (q < p => pc[q] # "start")

\* One step of invocation p when it is its turn.
SeqStep(p) ==
    \/ InTurn(p) /\ ParseFlags(p, PlainCmdLines)
    \/ InTurn(p) /\ Download(p)
    \/ InTurn(p) /\ ReadState(p)
    \/ InTurn(p) /\ CheckSince(p)
    \/ InTurn(p) /\ FormatNow(p)
    \/ InTurn(p) /\ WriteState(p)
    \/ InTurn(p) /\ Report(p)

SeqNext == Tick(Procs) \/ \E p \in Procs : SeqStep(p)

SeqSpec == Init /\ [][SeqNext]_vars

\* One invocation, with any command line, in any environment.
RunInit == InitIn(Envs)

RunNext == Tick({1}) \/ Step(1, CmdLines)

RunSpec == RunInit /\ [][RunNext]_vars

(***************************************************************************)
(* Properties                                                              *)
(***************************************************************************)
Has(seq, x) == \E i \in DOMAIN seq : seq[i] = x

\* Invocation p came back from overloadProtection without an error.
Passed(p) == \E i \in DOMAIN passes : passes[i].by = p

\* Invocation p is past the comparison (or past the read of an absent file)
\* and has not failed since.
Admitted(p) == pc[p] \in {"now", "write", "report", "done"}

\* C1 (sequential runs, usable home directory): a call that finds no state
\* file is admitted and leaves the file holding the text of its time.Now(); a
\* call whose elapsed time since the recorded timestamp is below the minimum
\* dies with the error that names the minimum (15m0s) and the elapsed time; a
\* call whose elapsed time is at least the minimum is admitted and leaves the
\* file holding the text of its time.Now(), which is not before the check.  A
\* call reads the timestamp the last admitted call before it wrote.
C1_FirstTooSoonThenLate ==
    \A p \in Procs :
        buf[p] # <<>> =>
            LET r       == buf[p][1]
                written == pc[p] = "report" =>
                               /\ file = Holding(FormatUnixDate(tformat[p][1]))
                               /\ file.data = tformat[p][2]
                               /\ tformat[p][1] <= clock
            IN  /\ r.err = "notexist" => Admitted(p) /\ since[p] = <<>> /\ written
                /\ (since[p] # <<>> /\ since[p][1] < MinDuration) =>
                       /\ pc[p] = "fatal"
                       /\ ~Passed(p)
                       /\ err[p] = "program ran less than 15m0s ago (" \o
                                   DurationString(since[p][1]) \o ")"
                /\ (since[p] # <<>> /\ since[p][1] >= MinDuration) =>
                       /\ Admitted(p)
                       /\ written
                       /\ tformat[p] # <<>> =>
                              tformat[p][1] >= r.data.sec * Second + since[p][1]
                /\ \A q \in Procs :
                       (/\ q < p
                        /\ Passed(q)
                        /\ \A m \in Procs : (q < m /\ m < p) => ~Passed(m)) =>
                           r = [err |-> "", data |-> tformat[q][2]]

\* C1, witness: the first call found no file and passed, the second came
\* 14m59.5s after the recorded timestamp and died, the third came 15m0s after
\* it, passed and has just overwritten the file.
C1_Witness ==
    /\ buf[1] # <<>> /\ buf[1][1].err = "notexist" /\ pc[1] = "done"
    /\ err[2] = "program ran less than 15m0s ago (14m59.5s)"
    /\ since[3] = <<MinDuration>> /\ pc[3] = "report"
    /\ file = Holding(tformat[3][2]) /\ file # Holding(tformat[1][2])

\* C2 (one run, any environment, any prior state file): a run with the force
\* flag never stats the home directory and never reads or writes the state
\* file, which stays as it was; once its download has succeeded it goes on to
\* the report, and when it is done it has printed its result line.
C2_ForcedRunLeavesStateFile ==
    (cmd[1] # <<>> /\ opt[1].force) =>
        /\ ~Has(events[1], "stat")
        /\ ~Has(events[1], "read")
        /\ ~Has(events[1], "write")
        /\ buf[1] = <<>> /\ tformat[1] = <<>> /\ passes = <<>>
        /\ file = file0
        /\ (Has(events[1], "get") /\ dl[1].err = "") =>
               /\ pc[1] \in {"report", "done"}
               /\ pc[1] = "done" =>
                      /\ Len(out[1]) = 1
                      /\ events[1] = <<"parse", "get", "print">>

\* C2, witness: the state file was written just now, and a forced run has
\* printed its result.
C2_Witness ==
    /\ file0 = Holding(FormatUnixDate(clock))
    /\ cmd[1] # <<>> /\ opt[1].force /\ ~opt[1].dryrun
    /\ pc[1] = "done" /\ out[1] # <<>>
    /\ file = file0

\* C3 (sequential runs): a run that reads a state file whose text is no
\* timestamp dies of the parse error without a write and without a result; a
\* state file that was corrupted at the start is still the same file, and no
\* run has passed the protection.
C3_CorruptedFileFailsAndStays ==
    /\ \A p \in Procs :
           (buf[p] # <<>> /\ buf[p][1].err = "" /\ buf[p][1].data.txt # "date") =>
               /\ pc[p] = "fatal"
               /\ err[p] = "parse"
               /\ ~Has(events[p], "write")
               /\ tformat[p] = <<>>
               /\ out[p] = <<>>
    /\ file0 = Holding(Garbage) =>
           /\ file = file0
           /\ passes = <<>>
           /\ \A p \in Procs : (buf[p] # <<>>) => pc[p] = "fatal" /\ err[p] = "parse"

\* C3, witness: the file was corrupted at the start; the first run died of
\* the parse error, a forced run in between printed its result, the third run
\* died of the parse error too, and the file is as it was.
C3_Witness ==
    /\ file0 = Holding(Garbage) /\ file = file0
    /\ pc[1] = "fatal" /\ err[1] = "parse"
    /\ pc[2] = "done" /\ opt[2].force
    /\ pc[3] = "fatal" /\ err[3] = "parse" /\ ~opt[3].force

\* C4 as stated: only a run that is neither a dry run nor forced writes the
\* state file.
C4_OnlyRealRunsWrite ==
    (Passed(1) \/ file # file0 \/ Has(events[1], "write")) =>
        ~opt[1].dryrun /\ ~opt[1].force

\* C4, amended (one run, any environment): only a run that is not forced
\* writes the state file, and the dry-run flag changes nothing in that: a run
\* that is not forced and reaches the report, dry run or not, has passed the
\* protection and has written the text of its time.Now() to the state file.
C4_OnlyUnforcedRunsWrite ==
    /\ (Passed(1) \/ file # file0 \/ Has(events[1], "write")) => ~opt[1].force
    /\ (cmd[1] # <<>> /\ ~opt[1].force /\ pc[1] \in {"report", "done"}) =>
           /\ Passed(1)
           /\ Has(events[1], "write")
           /\ tformat[1] # <<>>
           /\ file = Holding(tformat[1][2])

\* C4, witness: a dry run that is not forced is done and has created the
\* state file.
C4_Witness ==
    /\ cmd[1] # <<>> /\ opt[1].dryrun /\ ~opt[1].force
    /\ pc[1] = "done"
    /\ file0 = Absent /\ file # file0 /\ file = Holding(tformat[1][2])

\* C5 (any command line): when the location is not "help", parseFlags fails
\* exactly when the location is no key of the table, whether or not a server
\* was given; when it succeeds the server is the one given, unchanged, or,
\* when none (or an empty one) was given, "http://<location>.testmy.net".
C5_LocationCheckedServerResolved ==
    cmd[1] # <<>> =>
        LET c   == cmd[1][1]
            loc == IF c.location = Unset THEN "ca" ELSE c.location
            srv == IF c.server = Unset THEN "" ELSE c.server
        IN  loc # "help" =>
                /\ (err[1] = "unable to find location") <=> (loc \notin serverLocation)
                /\ loc \notin serverLocation =>
                       pc[1] = "fatal" /\ events[1] = <<"parse">>
                /\ loc \in serverLocation =>
                       /\ pc[1] # "exit2"
                       /\ opt[1].location = loc
                       /\ opt[1].server =
                              IF srv # "" THEN srv
                              ELSE "http://" \o loc \o ".testmy.net"

\* C5, witness: an unknown location with an explicit server has failed.
C5_Witness ==
    /\ cmd[1] # <<>>
    /\ cmd[1][1].location = "zz" /\ cmd[1][1].server = "http://example.org"
    /\ pc[1] = "fatal" /\ err[1] = "unable to find location"

C7_HomeMustBeDirectory ==
    (env.kind \in {"missing", "file"} /\ Has(events[1], "stat")) =>
        /\ err[1] = "home"
        /\ buf[1] = <<>>
        /\ ~Has(events[1], "read")
        /\ ~Has(events[1], "write")

\* C8 (two overlapping invocations): two runs pass the protection within a
\* second less than the minimum interval of each other only by the race: the
\* later one had read the state file before the earlier one wrote it.  The
\* witness shows that the race happens.
C8_CloseRunsOnlyByRace ==
    \A i, j \in DOMAIN passes :
        (i < j /\ passes[j].at - passes[i].at <= MinDuration - Second) =>
            /\ prior[passes[j].by] < i
            /\ passes[j].by # passes[i].by

\* C8, witness: neither run is forced, both read the same old state of the
\* file before either wrote, both passed at the same time and both have
\* printed a result.
C8_Witness ==
    /\ ~opt[1].force /\ ~opt[2].force
    /\ pc[1] = "done" /\ pc[2] = "done"
    /\ out[1] # <<>> /\ out[2] # <<>>
    /\ Len(passes) = 2 /\ passes[1].at = passes[2].at
    /\ prior[1] = 0 /\ prior[2] = 0
    /\ buf[1] = buf[2]

\* The place of each thing a run does in the order of main.
Rank(e) ==
    CASE e = "parse" -> 1
      [] e = "help"  -> 2
      [] e = "get"   -> 2
      [] e = "stat"  -> 3
      [] e = "read"  -> 4
      [] e = "write" -> 5
      [] e = "print" -> 6

\* C9 (one run): what a run does comes in the order options, GET, home
\* directory, read, write, result line; the protection comes before the result
\* line unless the run is forced; a run that met an error has exited and has
\* printed no result line; a run whose download failed has not touched the
\* state file; a run the protection rejected has issued its GET and has
\* printed nothing.
C9_OrderAndFirstFailureEnds ==
    LET ev == events[1] IN
    /\ \A i, j \in DOMAIN ev : i < j => Rank(ev[i]) < Rank(ev[j])
    /\ ev # <<>> => ev[1] = "parse"
    /\ Has(ev, "get") => pc[1] \notin {"start", "download", "exit2"}
    /\ Has(ev, "stat") => Has(ev, "get") /\ dl[1].err = "" /\ ~opt[1].force
    /\ Has(ev, "print") =>
           /\ Has(ev, "get") /\ dl[1].err = ""
           /\ ~opt[1].force => Has(ev, "stat") /\ Has(ev, "read") /\ Passed(1)
    /\ pc[1] = "done" <=> Has(ev, "print")
    /\ err[1] # "" <=> pc[1] = "fatal"
    /\ err[1] # "" => out[1] = <<>> /\ ~Has(ev, "print")
    /\ dl[1].err # "" =>
           /\ err[1] = dl[1].err
           /\ buf[1] = <<>> /\ tformat[1] = <<>> /\ file = file0
           /\ ev = <<"parse", "get">>
    /\ (since[1] # <<>> /\ since[1][1] < MinDuration) =>
           /\ err[1] # ""
           /\ ev = <<"parse", "get", "stat", "read">>
           /\ out[1] = <<>>
           /\ file = file0

\* C9, witness: a run was rejected by the protection after its GET.
C9_Witness ==
    /\ err[1] = "program ran less than 15m0s ago (500ms)"
    /\ events[1] = <<"parse", "get", "stat", "read">>
    /\ out[1] = <<>>

\* C10 as stated (sequential runs, none forced): the time.Now() of any two
\* runs that passed the protection are at least the minimum interval apart,
\* and the state file holds the timestamp of the last run that passed.
C10_PassingRunsMinIntervalApart ==
    (\A p \in Procs : ~opt[p].force) =>
        /\ \A i, j \in DOMAIN passes :
               i < j => passes[j].at - passes[i].at >= MinDuration
        /\ passes # <<>> =>
               file = Holding(FormatUnixDate(passes[Len(passes)].at))

====
